---- MODULE Spec2Model ----
(***************************************************************************)
(* A model of clippy_lints/src/format.rs (the USELESS_FORMAT late lint     *)
(* pass).  One run of Pass::check_expr on one HIR expression is a small    *)
(* state machine: the macro-origin gate, the dispatch on the expression    *)
(* kind, the if_chain of the call form (one step per condition), the       *)
(* literal form, and the emission of the diagnostic.                       *)
(*                                                                         *)
(* HIR nodes are records tagged by "kind".  Spans are records carrying the *)
(* source text they cover and their expansion info.  What the compiler's   *)
(* tables answer for a node (the resolution of a path, the type of a       *)
(* pattern) is stored on the node.                                         *)
(***************************************************************************)
EXTENDS Naturals, Sequences, FiniteSets, TLC

VARIABLES expr, pc, span, fun_def_id, format_arg, ran, diags

vars == <<expr, pc, span, fun_def_id, format_arg, ran, diags>>

(***************************************************************************)
(* Bounds of the model.                                                    *)
(***************************************************************************)
\* the longest tuple a match scrutinee carries
MaxTupleLen == 2
\* the deepest nesting of reference wrappers around a pattern's type
MaxRefDepth == 2
\* the deepest nesting of macro expansions a span comes from
MaxExpnDepth == 2

(***************************************************************************)
(* Option<T>, and the outcome of an indexing that is out of bounds.        *)
(***************************************************************************)
None == [tag |-> "None"]
Some(v) == [tag |-> "Some", val |-> v]
Panic == [tag |-> "Panic"]

(***************************************************************************)
(* Spans.                                                                  *)
(***************************************************************************)
NoExpn == [mac |-> "none"]
Expn(mac, call_site) == [mac |-> mac, call_site |-> call_site]
MkSpan(src, expn) == [src |-> src, expn |-> expn]

\* utils::is_expn_of: the call site of the nearest enclosing expansion of
\* the macro `name`, walking up the chain of call sites.
RECURSIVE is_expn_of(_, _)
is_expn_of(sp, name) ==
    IF sp.expn.mac = "none" THEN None
    ELSE IF sp.expn.mac = name THEN Some(sp.expn.call_site)
    ELSE is_expn_of(sp.expn.call_site, name)

\* utils::in_macro: the span itself comes from a macro expansion.
in_macro(sp) == sp.expn.mac # "none"

\* utils::snippet: the source text a span covers, or the default.
snippet(sp, default) == IF sp.src.tag = "Some" THEN sp.src.val ELSE default

(***************************************************************************)
(* The canonical paths (utils::paths) and the resolver.                    *)
(***************************************************************************)
FMT_ARGUMENTS_NEWV1FORMATTED == <<"core", "fmt", "Arguments", "new_v1_formatted">>
DISPLAY_FMT_METHOD == <<"core", "fmt", "Display", "fmt">>
STRING_PATH == <<"alloc", "string", "String">>

DefFn(did) == [kind |-> "Fn", did |-> did]
DefMethod(did) == [kind |-> "Method", did |-> did]
DefLocal == [kind |-> "Local"]
DefVariant(did) == [kind |-> "Variant", did |-> did]
DefErr == [kind |-> "Err"]

\* utils::resolve_node: what the typeck tables answer for a path node.
resolve_node(path_expr) == path_expr.res

\* utils::opt_def_id: a definition that cannot be resolved has no DefId.
opt_def_id(def) == IF def.kind \in {"Fn", "Method"} THEN Some(def.did) ELSE None

\* utils::match_def_path: a DefId is modelled by its absolute path.
match_def_path(def_id, path) == def_id = path

\* utils::last_path_segment
last_path_segment(qpath) == qpath[Len(qpath)]

(***************************************************************************)
(* Types.                                                                  *)
(***************************************************************************)
TyStr == [kind |-> "Str"]
TyInt == [kind |-> "Int"]
TyAdt(did) == [kind |-> "Adt", did |-> did]
TyRef(ty) == [kind |-> "Ref", ty |-> ty]

\* utils::walk_ptrs_ty: the type under every reference wrapper.
RECURSIVE walk_ptrs_ty(_)
walk_ptrs_ty(ty) == IF ty.kind = "Ref" THEN walk_ptrs_ty(ty.ty) ELSE ty

\* utils::match_type
match_type(ty, path) == ty.kind = "Adt" /\ match_def_path(ty.did, path)

(***************************************************************************)
(* HIR expressions and patterns.                                           *)
(***************************************************************************)
Path(segs, res) == [kind |-> "Path", segs |-> segs, res |-> res]
Lit(k, v) == [kind |-> "Lit", lit |-> [kind |-> k, val |-> v]]
AddrOf(e) == [kind |-> "AddrOf", expr |-> e]
Array(es) == [kind |-> "Array", exprs |-> es]
Field(n, e) == [name |-> n, expr |-> e]
Struct(fs) == [kind |-> "Struct", fields |-> fs]
Tup(es, sp) == [kind |-> "Tup", elems |-> es, span |-> sp]
Call(f, as, sp) == [kind |-> "Call", fun |-> f, args |-> as, span |-> sp]
Arm(ps, body) == [pats |-> ps, body |-> body]
Match(m, arms, sp) == [kind |-> "Match", matchee |-> m, arms |-> arms, span |-> sp]
\* an expression of a kind check_expr does not look into
Other(k, sp) == [kind |-> k, span |-> sp]

PatBinding(name, ty) == [kind |-> "Binding", name |-> name, ty |-> ty]
PatWild(ty) == [kind |-> "Wild", ty |-> ty]
PatTuple(ps, ddpos) == [kind |-> "Tuple", pats |-> ps, ddpos |-> ddpos]

\* cx.tables.pat_ty
pat_ty(pat) == pat.ty

\* fields.iter().find(|f| f.ident.name == name)
RECURSIVE find_field(_, _)
find_field(fields, name) ==
    IF fields = << >> THEN None
    ELSE IF Head(fields).name = name THEN Some(Head(fields))
    ELSE find_field(Tail(fields), name)

(***************************************************************************)
(* The matchers.                                                           *)
(***************************************************************************)
\* Checks if the expression matches &[""]
check_single_piece(e) ==
    /\ e.kind = "AddrOf"
    /\ e.expr.kind = "Array"
    /\ Len(e.expr.exprs) = 1
    /\ e.expr.exprs[1].kind = "Lit"
    /\ e.expr.exprs[1].lit.kind = "Str"
    /\ e.expr.exprs[1].lit.val = ""

\* single_arg_chain with a path that does not resolve taken for a match
single_arg_chain_unresolved_ok(e) ==
    /\ e.kind = "AddrOf"
    /\ e.expr.kind = "Match"
    /\ Len(e.expr.arms) = 1
    /\ Len(e.expr.arms[1].pats) = 1
    /\ e.expr.arms[1].pats[1].kind = "Tuple"
    /\ e.expr.arms[1].pats[1].ddpos = None
    /\ Len(e.expr.arms[1].pats[1].pats) = 1
    /\ e.expr.arms[1].body.kind = "Array"
    /\ Len(e.expr.arms[1].body.exprs) = 1
    /\ e.expr.arms[1].body.exprs[1].kind = "Call"
    /\ Len(e.expr.arms[1].body.exprs[1].args) = 2
    /\ e.expr.arms[1].body.exprs[1].args[2].kind = "Path"
    /\ \/ opt_def_id(resolve_node(e.expr.arms[1].body.exprs[1].args[2])).tag = "None"
       \/ match_def_path(opt_def_id(resolve_node(e.expr.arms[1].body.exprs[1].args[2])).val,
                         DISPLAY_FMT_METHOD)

\* The conditions of the if_chain of get_single_string_arg:
\* &match _ { (_,) => [_(_, <path resolving to Display::fmt>)] }
single_arg_chain(e) ==
    /\ e.kind = "AddrOf"
    /\ e.expr.kind = "Match"
    /\ Len(e.expr.arms) = 1
    /\ Len(e.expr.arms[1].pats) = 1
    /\ e.expr.arms[1].pats[1].kind = "Tuple"
    /\ e.expr.arms[1].pats[1].ddpos = None
    /\ Len(e.expr.arms[1].pats[1].pats) = 1
    /\ e.expr.arms[1].body.kind = "Array"
    /\ Len(e.expr.arms[1].body.exprs) = 1
    /\ e.expr.arms[1].body.exprs[1].kind = "Call"
    /\ Len(e.expr.arms[1].body.exprs[1].args) = 2
    /\ e.expr.arms[1].body.exprs[1].args[2].kind = "Path"
    /\ opt_def_id(resolve_node(e.expr.arms[1].body.exprs[1].args[2])).tag = "Some"
    /\ match_def_path(opt_def_id(resolve_node(e.expr.arms[1].body.exprs[1].args[2])).val,
                      DISPLAY_FMT_METHOD)

\* values[0].span: indexing an empty sequence panics
first_span(values) == IF Len(values) = 0 THEN Panic ELSE Some(values[1].span)

\* get_single_string_arg returning the span of the synthesized scrutinee
get_single_string_arg_scrutinee_span(e) ==
    IF single_arg_chain(e)
    THEN LET ty == walk_ptrs_ty(pat_ty(e.expr.arms[1].pats[1].pats[1]))
             match_expr == e.expr.matchee
         IN  IF ty.kind = "Str" \/ match_type(ty, STRING_PATH)
             THEN IF match_expr.kind = "Tup"
                  THEN (IF Len(match_expr.elems) = 0 THEN Panic ELSE Some(match_expr.span))
                  ELSE None
             ELSE None
    ELSE None

\* get_single_string_arg without the test of the type of the bound name
get_single_string_arg_any_type(e) ==
    IF single_arg_chain(e)
    THEN LET match_expr == e.expr.matchee
         IN  IF match_expr.kind = "Tup" THEN first_span(match_expr.elems) ELSE None
    ELSE None

\* Some(span of the first element of the matched tuple), None, or a panic
get_single_string_arg(e) ==
    IF single_arg_chain(e)
    THEN LET ty == walk_ptrs_ty(pat_ty(e.expr.arms[1].pats[1].pats[1]))
             match_expr == e.expr.matchee
         IN  IF ty.kind = "Str" \/ match_type(ty, STRING_PATH)
             THEN IF match_expr.kind = "Tup" THEN first_span(match_expr.elems) ELSE None
             ELSE None
    ELSE None

\* check_unformatted accepting any path as the width
check_unformatted_any_width(e) ==
    /\ e.kind = "AddrOf"
    /\ e.expr.kind = "Array"
    /\ Len(e.expr.exprs) = 1
    /\ e.expr.exprs[1].kind = "Struct"
    /\ find_field(e.expr.exprs[1].fields, "format").tag = "Some"
    /\ LET format_field == find_field(e.expr.exprs[1].fields, "format").val
       IN  /\ format_field.expr.kind = "Struct"
           /\ find_field(format_field.expr.fields, "width").tag = "Some"
           /\ LET align_field == find_field(format_field.expr.fields, "width").val
              IN  align_field.expr.kind = "Path"

\* Checks if the expression matches &[_ { format: _ { width: _::Implied, .. }, .. }]
check_unformatted(e) ==
    /\ e.kind = "AddrOf"
    /\ e.expr.kind = "Array"
    /\ Len(e.expr.exprs) = 1
    /\ e.expr.exprs[1].kind = "Struct"
    /\ find_field(e.expr.exprs[1].fields, "format").tag = "Some"
    /\ LET format_field == find_field(e.expr.exprs[1].fields, "format").val
       IN  /\ format_field.expr.kind = "Struct"
           /\ find_field(format_field.expr.fields, "width").tag = "Some"
           /\ LET align_field == find_field(format_field.expr.fields, "width").val
              IN  /\ align_field.expr.kind = "Path"
                  /\ last_path_segment(align_field.expr.segs) = "Implied"

(***************************************************************************)
(* The diagnostics check_expr builds.                                      *)
(***************************************************************************)
\* span_lint_and_then(cx, USELESS_FORMAT, target, msg, |db| db.span_suggestion(at, help, sugg))
\* The message "useless use of `format!`".  A string literal that holds a
\* backquote has to close it with an apostrophe; that last character is cut
\* off again, so the value is the message of the code, backquotes included.
USELESS_FORMAT_MSG ==
    LET quoted == "useless use of `format!`'" IN SubSeq(quoted, 1, Len(quoted) - 1)

Diagnostic(target, at, sugg) ==
    [lint |-> "USELESS_FORMAT", span |-> target, msg |-> USELESS_FORMAT_MSG,
     sugg_span |-> at, help |-> "consider using .to_string()", sugg |-> sugg]

\* the report of the call form, `format!("{}", foo)`
call_diag(e, origin, arg_span) ==
    Diagnostic(origin, e.span, snippet(arg_span, "<arg>") \o ".to_string()")

\* literal_diag built from the text of the whole invocation
literal_diag_origin_text(e, origin) ==
    Diagnostic(origin, origin, snippet(origin, "<expr>") \o ".to_string()")

\* the report of the literal form, `format!("foo")`
literal_diag(e, origin) ==
    Diagnostic(origin, origin, snippet(e.span, "<expr>") \o ".to_string()")

(***************************************************************************)
(* The expressions the driver hands to check_expr.                         *)
(***************************************************************************)
MacroNames == {"format", "vec"}
\* the text of user-written argument expressions
ArgSrcs == {Some("foo"), Some("&name")}
\* the text under the span of an expanded expression (none: not available)
ExpnSrcs == {Some("\"foo\""), Some("format!(\"foo\")"), None}
\* the text of macro call sites
CallSiteSrcs == {Some("format!(\"foo\")"), Some("mac!()")}

RECURSIVE CallSitesAt(_)
CallSitesAt(d) ==
    IF d = 0 THEN {MkSpan(s, NoExpn) : s \in CallSiteSrcs}
    ELSE {MkSpan(s, Expn(m, c)) : s \in CallSiteSrcs, m \in MacroNames, c \in CallSitesAt(d - 1)}

\* the spans an expression can carry: user-written, or expanded up to MaxExpnDepth deep
ExprSpans ==
    {MkSpan(s, NoExpn) : s \in ExpnSrcs} \cup
    UNION {{MkSpan(s, Expn(m, c)) : s \in ExpnSrcs, m \in MacroNames, c \in CallSitesAt(d - 1)}
           : d \in 1..MaxExpnDepth}

\* an expression of a direct, top-level `format!` invocation
BaseSpan == MkSpan(Some("\"foo\""), Expn("format", MkSpan(Some("format!(\"foo\")"), NoExpn)))
\* the span of a node inside the expansion that no diagnostic uses
InnerSpan == MkSpan(None, Expn("format", MkSpan(Some("format!(\"foo\")"), NoExpn)))
\* the span of the synthesized match scrutinee
ScrutSpan == MkSpan(Some("(&foo,)"), Expn("format", MkSpan(Some("format!(\"foo\")"), NoExpn)))

ArgExprs == {Other("Path", MkSpan(s, NoExpn)) : s \in ArgSrcs}
FillerArg == Other("Lit", MkSpan(Some("1"), NoExpn))
RECURSIVE Fillers(_)
Fillers(n) == IF n = 0 THEN << >> ELSE <<FillerArg>> \o Fillers(n - 1)
TupElems(n) == IF n = 0 THEN {<< >>} ELSE {<<a>> \o Fillers(n - 1) : a \in ArgExprs}
Tuples == {Tup(es, ScrutSpan) : es \in UNION {TupElems(n) : n \in 0..MaxTupleLen}}
Scrutinees == Tuples \cup {Other("Path", ScrutSpan)}

VEC_PATH == <<"alloc", "vec", "Vec">>
BaseTys == {TyStr, TyAdt(STRING_PATH), TyInt, TyAdt(VEC_PATH)}
RECURSIVE TysAt(_)
TysAt(d) == IF d = 0 THEN BaseTys ELSE {TyRef(t) : t \in TysAt(d - 1)}
Tys == UNION {TysAt(d) : d \in 0..MaxRefDepth}

DEBUG_FMT_METHOD == <<"core", "fmt", "Debug", "fmt">>
DisplayFmt == DefMethod(DISPLAY_FMT_METHOD)
FmtResolutions == {DisplayFmt, DefMethod(DEBUG_FMT_METHOD), DefErr}

\* [::std::fmt::ArgumentV1::new(__arg0, <fmt>)]
NewArgument(fmt) ==
    Call(Path(<<"core", "fmt", "ArgumentV1", "new">>, DefMethod(<<"core", "fmt", "ArgumentV1", "new">>)),
         <<Path(<<"__arg0">>, DefLocal), fmt>>, InnerSpan)
FmtPath(res) == Path(<<"core", "fmt", "Display", "fmt">>, res)
FmtBody(res) == Array(<<NewArgument(FmtPath(res))>>)
ArgPat(ty) == PatTuple(<<PatBinding("__arg0", ty)>>, None)
\* &match <scrut> { <pat> => <body> }
Arg1(scrut, pat, body) == AddrOf(Match(scrut, <<Arm(<<pat>>, body)>>, InnerSpan))

FooTup == Tup(<<Other("Path", MkSpan(Some("foo"), NoExpn))>>, ScrutSpan)
StrRef == TyRef(TyStr)
CanonArm == Arm(<<ArgPat(StrRef)>>, FmtBody(DisplayFmt))

Arg1Key ==
    {Arg1(sc, ArgPat(ty), FmtBody(DisplayFmt)) : sc \in Scrutinees, ty \in Tys} \cup
    {Arg1(sc, ArgPat(ty), FmtBody(r)) : sc \in Scrutinees, ty \in {StrRef, TyInt}, r \in FmtResolutions}

Arg1Deviant ==
    { Match(FooTup, <<CanonArm>>, InnerSpan),
      AddrOf(Array(<<Lit("Str", "")>>)),
      AddrOf(Match(FooTup, <<CanonArm, CanonArm>>, InnerSpan)),
      AddrOf(Match(FooTup, <<Arm(<<ArgPat(StrRef), ArgPat(StrRef)>>, FmtBody(DisplayFmt))>>, InnerSpan)),
      Arg1(FooTup, PatBinding("__arg0", StrRef), FmtBody(DisplayFmt)),
      Arg1(FooTup, PatTuple(<<PatBinding("__arg0", StrRef)>>, Some(1)), FmtBody(DisplayFmt)),
      Arg1(FooTup, PatTuple(<< >>, None), FmtBody(DisplayFmt)),
      Arg1(FooTup, PatTuple(<<PatBinding("__arg0", StrRef), PatBinding("__arg1", StrRef)>>, None),
           FmtBody(DisplayFmt)),
      Arg1(FooTup, PatTuple(<<PatWild(StrRef)>>, None), FmtBody(DisplayFmt)),
      Arg1(FooTup, ArgPat(StrRef), Lit("Str", "")),
      Arg1(FooTup, ArgPat(StrRef), Array(<<NewArgument(FmtPath(DisplayFmt)), NewArgument(FmtPath(DisplayFmt))>>)),
      Arg1(FooTup, ArgPat(StrRef), Array(<<Lit("Str", "")>>)),
      Arg1(FooTup, ArgPat(StrRef),
           Array(<<Call(Path(<<"f">>, DefFn(<<"f">>)), <<FmtPath(DisplayFmt)>>, InnerSpan)>>)),
      Arg1(FooTup, ArgPat(StrRef), Array(<<NewArgument(Lit("Str", ""))>>)) }

\* the second argument of the expansion of a format string with two substitutions
Arg1Two ==
    Arg1(Tup(<<Other("Path", MkSpan(Some("foo"), NoExpn)), FillerArg>>, ScrutSpan),
         PatTuple(<<PatBinding("__arg0", StrRef), PatBinding("__arg1", StrRef)>>, None),
         Array(<<NewArgument(FmtPath(DisplayFmt)), NewArgument(FmtPath(DisplayFmt))>>))

Arg1s == Arg1Key \cup Arg1Deviant \cup {Arg1Two}

\* the pieces of the format string
Pieces(strs) == AddrOf(Array(strs))
EmptyPiece == Pieces(<<Lit("Str", "")>>)
PiecesKey ==
    { EmptyPiece,
      Pieces(<<Lit("Str", "foo")>>),
      Pieces(<<Lit("Str", ""), Lit("Str", "")>>),
      Pieces(<<Lit("Str", ""), Lit("Str", "bar")>>) }
PiecesDeviant ==
    { Array(<<Lit("Str", "")>>),
      AddrOf(Lit("Str", "")),
      Pieces(<< >>),
      Pieces(<<Lit("Int", "")>>),
      Pieces(<<Path(<<"S">>, DefLocal)>>) }

\* the format specifications
CountPath(v) == Path(<<"core", "fmt", "rt", "v1", "Count", v>>,
                     DefVariant(<<"core", "fmt", "rt", "v1", "Count", v>>))
CountImplied == CountPath("Implied")
CountIs == Call(CountPath("Is"), <<Lit("Int", "5")>>, InnerSpan)
AlignPath(v) == Path(<<"core", "fmt", "rt", "v1", "Alignment", v>>,
                     DefVariant(<<"core", "fmt", "rt", "v1", "Alignment", v>>))
Widths == {CountImplied, CountIs, CountPath("NextParam")}
Precisions == {CountImplied, CountIs}
Aligns == {AlignPath("Unknown"), AlignPath("Left")}
FormatSpec(align, precision, width) ==
    Struct(<<Field("fill", Lit("Char", " ")), Field("align", align), Field("flags", Lit("Int", "0")),
             Field("precision", precision), Field("width", width)>>)
Argument(format) == Struct(<<Field("position", Lit("Int", "0")), Field("format", format)>>)
Arg2(specs) == AddrOf(Array(specs))
DefaultSpec == FormatSpec(AlignPath("Unknown"), CountImplied, CountImplied)
Arg2Key == {Arg2(<<Argument(FormatSpec(a, p, w))>>) : a \in Aligns, p \in Precisions, w \in Widths}
Arg2Deviant ==
    { Arg2(<<Argument(FormatSpec(AlignPath("Unknown"), CountImplied,
                                 Path(<<"my", "Implied">>, DefLocal)))>>),
      Arg2(<<Struct(<<Field("position", Lit("Int", "0"))>>)>>),
      Arg2(<<Argument(Struct(<<Field("precision", CountImplied)>>))>>),
      Arg2(<<Argument(Path(<<"SPEC">>, DefLocal))>>),
      Arg2(<<Lit("Int", "0")>>),
      Arg2(<<Argument(DefaultSpec), Argument(DefaultSpec)>>),
      Arg2(<< >>),
      Array(<<Argument(DefaultSpec)>>) }
Arg2s == Arg2Key \cup Arg2Deviant

\* the callee
NewV1Formatted == Path(<<"core", "fmt", "Arguments", "new_v1_formatted">>,
                       DefMethod(FMT_ARGUMENTS_NEWV1FORMATTED))
Funs ==
    { NewV1Formatted,
      Path(<<"core", "fmt", "Arguments", "new_v1">>, DefMethod(<<"core", "fmt", "Arguments", "new_v1">>)),
      Path(<<"core", "fmt", "Arguments", "new_v1_formatted">>, DefErr),
      Path(<<"f">>, DefLocal),
      Other("Closure", InnerSpan) }

\* the canonical expansion of `format!("{}", arg)`, arg of a pattern type ty
CanonArg1(arg, ty) == Arg1(Tup(<<arg>>, ScrutSpan), ArgPat(ty), FmtBody(DisplayFmt))
CanonArg2 == Arg2(<<Argument(DefaultSpec)>>)
CanonCall(arg, ty, sp) == Call(NewV1Formatted, <<EmptyPiece, CanonArg1(arg, ty), CanonArg2>>, sp)
\* the canonical expansion of `format!("foo")` contains `match () { () => [] }`
CanonLiteral(sp) == Match(Tup(<< >>, ScrutSpan), <<Arm(<<PatTuple(<< >>, None)>>, Array(<< >>))>>, sp)
\* the canonical expansion of `format!("{}{}", a, b)`
CanonCallTwo(sp) ==
    Call(NewV1Formatted,
         <<Pieces(<<Lit("Str", ""), Lit("Str", "")>>), Arg1Two,
           Arg2(<<Argument(DefaultSpec), Argument(DefaultSpec)>>)>>, sp)

FooArg == Other("Path", MkSpan(Some("foo"), NoExpn))
NoSrcArg == Other("Path", MkSpan(None, NoExpn))
SmallArgs ==
    { <<EmptyPiece, CanonArg1(FooArg, StrRef), CanonArg2>>,
      <<EmptyPiece, CanonArg1(FooArg, StrRef)>>,
      <<EmptyPiece, CanonArg1(FooArg, StrRef), CanonArg2, CanonArg2>>,
      << >> }

CallExprs ==
    {Call(NewV1Formatted, <<p, a1, a2>>, BaseSpan) : p \in PiecesKey, a1 \in Arg1s, a2 \in Arg2s} \cup
    {Call(NewV1Formatted, <<p, CanonArg1(FooArg, StrRef), CanonArg2>>, BaseSpan) : p \in PiecesDeviant} \cup
    {Call(f, as, BaseSpan) : f \in Funs, as \in SmallArgs} \cup
    {CanonCall(a, ty, sp) : a \in ArgExprs \cup {NoSrcArg}, ty \in {StrRef, TyInt}, sp \in ExprSpans} \cup
    {CanonCallTwo(sp) : sp \in ExprSpans}

MatchExprs ==
    {CanonLiteral(sp) : sp \in ExprSpans} \cup
    {Match(sc, <<CanonArm>>, sp) : sc \in Scrutinees, sp \in ExprSpans}

OtherExprs == {Other(k, sp) : k \in {"Path", "Lit", "AddrOf", "Tup"}, sp \in ExprSpans}

Exprs == CallExprs \cup MatchExprs \cup OtherExprs

(***************************************************************************)
(* One run of Pass::check_expr.                                            *)
(***************************************************************************)
Init ==
    /\ expr \in Exprs
    /\ pc = "Start"
    /\ span = None
    /\ fun_def_id = None
    /\ format_arg = None
    /\ ran = << >>
    /\ diags = << >>

\* one condition of an if_chain: log it, go on if it holds, leave if not
Check(name, ok, next) ==
    /\ ran' = Append(ran, [check |-> name, ok |-> ok])
    /\ pc' = IF ok THEN next ELSE "Rejected"

\* if let Some(span) = is_expn_of(expr.span, "format")
IsExpnOf ==
    /\ pc = "Start"
    /\ span' = is_expn_of(expr.span, "format")
    /\ pc' = IF span'.tag = "Some" THEN "CheckOrigin" ELSE "Rejected"
    /\ UNCHANGED <<expr, fun_def_id, format_arg, ran, diags>>

\* InMacro without the early return
InMacro_no_return ==
    /\ pc = "CheckOrigin"
    /\ pc' = "MatchNode"
    /\ UNCHANGED <<expr, span, fun_def_id, format_arg, ran, diags>>

\* if in_macro(span) { return; }
InMacro ==
    /\ pc = "CheckOrigin"
    /\ pc' = IF in_macro(span.val) THEN "Rejected" ELSE "MatchNode"
    /\ UNCHANGED <<expr, span, fun_def_id, format_arg, ran, diags>>

\* match expr.node
MatchNode ==
    /\ pc = "MatchNode"
    /\ pc' = CASE expr.kind = "Call" -> "ShapeCallForm"
               [] expr.kind = "Match" -> "ShapeLiteralForm"
               [] OTHER -> "Rejected"
    /\ UNCHANGED <<expr, span, fun_def_id, format_arg, ran, diags>>

\* if let ExprKind::Path(ref qpath) = fun.node
CallFunPath ==
    /\ pc = "ShapeCallForm"
    /\ Check("fun_path", expr.fun.kind = "Path", "ArgsLen")
    /\ UNCHANGED <<expr, span, fun_def_id, format_arg, diags>>

\* if args.len() == 3
CallArgsLen ==
    /\ pc = "ArgsLen"
    /\ Check("args_len", Len(expr.args) = 3, "Resolve")
    /\ UNCHANGED <<expr, span, fun_def_id, format_arg, diags>>

\* if let Some(fun_def_id) = opt_def_id(resolve_node(cx, qpath, fun.hir_id))
CallResolve ==
    /\ pc = "Resolve"
    /\ fun_def_id' = opt_def_id(resolve_node(expr.fun))
    /\ Check("resolve", fun_def_id'.tag = "Some", "DefPath")
    /\ UNCHANGED <<expr, span, format_arg, diags>>

\* if match_def_path(cx.tcx, fun_def_id, &paths::FMT_ARGUMENTS_NEWV1FORMATTED)
CallMatchDefPath ==
    /\ pc = "DefPath"
    /\ Check("match_def_path", match_def_path(fun_def_id.val, FMT_ARGUMENTS_NEWV1FORMATTED), "SinglePiece")
    /\ UNCHANGED <<expr, span, fun_def_id, format_arg, diags>>

\* if check_single_piece(&args[0])
CallSinglePiece ==
    /\ pc = "SinglePiece"
    /\ Check("check_single_piece", check_single_piece(expr.args[1]), "StringArg")
    /\ UNCHANGED <<expr, span, fun_def_id, format_arg, diags>>

\* if let Some(format_arg) = get_single_string_arg(cx, &args[1]); the index
\* values[0] inside it panics on an empty tuple and unwinds out of check_expr
CallStringArg ==
    /\ pc = "StringArg"
    /\ format_arg' = get_single_string_arg(expr.args[2])
    /\ ran' = Append(ran, [check |-> "get_single_string_arg", ok |-> format_arg'.tag = "Some"])
    /\ pc' = CASE format_arg'.tag = "Some" -> "Unformatted"
               [] format_arg'.tag = "None" -> "Rejected"
               [] OTHER -> "Panicked"
    /\ UNCHANGED <<expr, span, fun_def_id, diags>>

\* if check_unformatted(&args[2])
CallUnformatted ==
    /\ pc = "Unformatted"
    /\ Check("check_unformatted", check_unformatted(expr.args[3]), "ReportCall")
    /\ UNCHANGED <<expr, span, fun_def_id, format_arg, diags>>

\* then { let sugg = ...; span_lint_and_then(...) }
ReportCall ==
    /\ pc = "ReportCall"
    /\ diags' = Append(diags, call_diag(expr, span.val, format_arg.val))
    /\ pc' = "Reported"
    /\ UNCHANGED <<expr, span, fun_def_id, format_arg, ran>>

\* if let ExprKind::Tup(ref tup) = matchee.node
LitTup ==
    /\ pc = "ShapeLiteralForm"
    /\ Check("matchee_tup", expr.matchee.kind = "Tup", "TupEmpty")
    /\ UNCHANGED <<expr, span, fun_def_id, format_arg, diags>>

\* if tup.is_empty()
LitEmpty ==
    /\ pc = "TupEmpty"
    /\ Check("tup_is_empty", Len(expr.matchee.elems) = 0, "ReportLiteral")
    /\ UNCHANGED <<expr, span, fun_def_id, format_arg, diags>>

\* let sugg = ...; span_lint_and_then(...)
ReportLiteral ==
    /\ pc = "ReportLiteral"
    /\ diags' = Append(diags, literal_diag(expr, span.val))
    /\ pc' = "Reported"
    /\ UNCHANGED <<expr, span, fun_def_id, format_arg, ran>>

Next ==
    \/ IsExpnOf
    \/ InMacro
    \/ MatchNode
    \/ CallFunPath
    \/ CallArgsLen
    \/ CallResolve
    \/ CallMatchDefPath
    \/ CallSinglePiece
    \/ CallStringArg
    \/ CallUnformatted
    \/ ReportCall
    \/ LitTup
    \/ LitEmpty
    \/ ReportLiteral

Spec == Init /\ [][Next]_vars

\* the run is over
Terminal == pc \in {"Reported", "Rejected", "Panicked"}

(***************************************************************************)
(* Vocabulary of the properties.                                           *)
(***************************************************************************)
\* the expression comes from a `format!` invocation that no macro produced
OriginOk ==
    /\ is_expn_of(expr.span, "format").tag = "Some"
    /\ ~in_macro(is_expn_of(expr.span, "format").val)

\* the textual string types: str and String under any reference wrappers
RECURSIVE TextualTysAt(_)
TextualTysAt(d) ==
    IF d = 0 THEN {TyStr, TyAdt(STRING_PATH)} ELSE {TyRef(t) : t \in TextualTysAt(d - 1)}
TextualTys == UNION {TextualTysAt(d) : d \in 0..MaxRefDepth}

AllArgExprs == ArgExprs \cup {NoSrcArg}

\* expr is the canonical expansion of format!("{}", a), the bound name of type ty
IsCanonCallOf(a, ty) ==
    /\ expr.kind = "Call"
    /\ expr.fun = NewV1Formatted
    /\ expr.args = <<EmptyPiece, CanonArg1(a, ty), CanonArg2>>

\* expr is a Match over an empty Tuple scrutinee
IsLiteralForm ==
    /\ expr.kind = "Match"
    /\ expr.matchee.kind = "Tup"
    /\ expr.matchee.elems = << >>

\* the format string has a literal piece that is not empty
NonEmptyLiteral ==
    /\ expr.kind = "Call"
    /\ Len(expr.args) >= 1
    /\ expr.args[1] \in {Pieces(<<Lit("Str", "foo")>>), Pieces(<<Lit("Str", ""), Lit("Str", "bar")>>)}

\* the invocation substitutes more than one argument
MultiSubstitution ==
    /\ expr.kind = "Call"
    /\ Len(expr.args) = 3
    /\ \/ expr.args[1] = Pieces(<<Lit("Str", ""), Lit("Str", "")>>)
       \/ expr.args[2] = Arg1Two
       \/ expr.args[3] = Arg2(<<Argument(DefaultSpec), Argument(DefaultSpec)>>)

\* the format specification states a width, a precision or an alignment
ExplicitOptions ==
    /\ expr.kind = "Call"
    /\ Len(expr.args) = 3
    /\ expr.args[3] \in Arg2Key \ {CanonArg2}

\* the third arguments whose format.width is a path ending in Implied
WidthImpliedArg2s ==
    {Arg2(<<Argument(FormatSpec(a, p, w))>>) :
        a \in Aligns, p \in Precisions, w \in {CountImplied, Path(<<"my", "Implied">>, DefLocal)}}

\* the second arguments of the shape get_single_string_arg looks for, the
\* bound name of type ty and the formatting method resolving to res
ShapedArg1s(tys, ress) ==
    {Arg1(sc, ArgPat(ty), FmtBody(r)) : sc \in Scrutinees, ty \in tys, r \in ress}

\* the order of the checks of the call form, and of the literal form
CallOrder == <<"fun_path", "args_len", "resolve", "match_def_path", "check_single_piece",
               "get_single_string_arg", "check_unformatted">>
LiteralOrder == <<"matchee_tup", "tup_is_empty">>

\* the checks ran in the order of `order`, each one only after the ones before it held
RanInOrder(order) ==
    /\ Len(ran) <= Len(order)
    /\ \A i \in 1..Len(ran) : ran[i].check = order[i] /\ (i < Len(ran) => ran[i].ok)

(***************************************************************************)
(* The properties.                                                         *)
(***************************************************************************)

\* C1: an invocation with a non-empty literal prefix or suffix, more than
\* one substitution, or an explicit width, precision or alignment is never
\* reported: no diagnostic is emitted for it.
C1_NoFalsePositive ==
    (NonEmptyLiteral \/ MultiSubstitution \/ ExplicitOptions) =>
        (diags = << >> /\ pc # "Reported")

\* C2: for the canonical expansion of format!("{}", a) with a of a textual
\* string type and no explicit options, the run ends Reported with one
\* suggestion whose text is the source text of a followed by .to_string().
C2_SingleSubstitution ==
    \A a \in AllArgExprs, ty \in TextualTys :
        (Terminal /\ OriginOk /\ IsCanonCallOf(a, ty)) =>
            /\ pc = "Reported"
            /\ Len(diags) = 1
            /\ format_arg = Some(a.span)
            /\ a.span.src.tag = "Some" => diags[1].sugg = a.span.src.val \o ".to_string()"

C2_Witness ==
    /\ pc = "Reported"
    /\ IsCanonCallOf(Other("Path", MkSpan(Some("&name"), NoExpn)), TyRef(TyAdt(STRING_PATH)))
    /\ diags[1].sugg = "&name.to_string()"

\* C3 as stated: for a Match over an empty Tuple the replacement text is the
\* text of the whole macro invocation followed by .to_string().
C3_Original ==
    (Terminal /\ OriginOk /\ IsLiteralForm) =>
        /\ pc = "Reported"
        /\ Len(diags) = 1
        /\ diags[1].sugg = span.val.src.val \o ".to_string()"

\* C3 amended: for a Match over an empty Tuple the run ends Reported with one
\* diagnostic, targeted and suggested at the macro-origin span, whose
\* replacement text is the source text of the Match expression's own span
\* ("<expr>" when that text is not available) followed by .to_string().
C3_LiteralForm ==
    (Terminal /\ OriginOk /\ IsLiteralForm) =>
        /\ pc = "Reported"
        /\ Len(diags) = 1
        /\ diags[1].span = is_expn_of(expr.span, "format").val
        /\ diags[1].sugg_span = is_expn_of(expr.span, "format").val
        /\ diags[1].sugg =
              (IF expr.span.src.tag = "Some" THEN expr.span.src.val ELSE "<expr>") \o ".to_string()"

C3_Witness ==
    /\ pc = "Reported"
    /\ IsLiteralForm
    /\ expr.span.src = Some("\"foo\"")
    /\ span.val.src = Some("format!(\"foo\")")
    /\ diags[1].sugg = "\"foo\".to_string()"

\* C4: when the second argument has the shape looked for but the type of the
\* bound name, under its reference wrappers, is neither str nor String,
\* get_single_string_arg yields no span and nothing is reported.
C4_TypeGate ==
    (/\ expr.kind = "Call"
     /\ Len(expr.args) = 3
     /\ expr.args[2] \in ShapedArg1s(Tys \ TextualTys, {DisplayFmt})) =>
        /\ format_arg = None
        /\ diags = << >>
        /\ pc \notin {"Unformatted", "ReportCall", "Reported", "Panicked"}

C4_Witness ==
    /\ pc = "Rejected"
    /\ OriginOk
    /\ IsCanonCallOf(FooArg, TyRef(TyInt))
    /\ Len(ran) = 6
    /\ ran[6] = [check |-> "get_single_string_arg", ok |-> FALSE]

\* C5: an expression with no `format!` origin, or whose macro-origin span is
\* itself inside a macro expansion, is rejected before any shape is looked
\* at: no check of either form runs and no diagnostic is emitted.
C5_NestedSuppression ==
    (\/ is_expn_of(expr.span, "format").tag = "None"
     \/ in_macro(is_expn_of(expr.span, "format").val)) =>
        /\ pc \in {"Start", "CheckOrigin", "Rejected"}
        /\ ran = << >>
        /\ diags = << >>

C5_Witness ==
    /\ pc = "Rejected"
    /\ span.tag = "Some"
    /\ in_macro(span.val)
    /\ \/ IsLiteralForm
       \/ IsCanonCallOf(FooArg, StrRef)

\* C6: in the call form, when the width field of the format struct of the
\* third argument is not a path ending in Implied (or the field is missing
\* or of another kind), check_unformatted is false and nothing is reported.
C6_OptionsGate ==
    (/\ expr.kind = "Call"
     /\ Len(expr.args) = 3
     /\ expr.args[3] \notin WidthImpliedArg2s) =>
        /\ ~check_unformatted(expr.args[3])
        /\ diags = << >>
        /\ pc \notin {"ReportCall", "Reported"}
        /\ (Len(ran) = 7 => ~ran[7].ok)

C6_Witness ==
    /\ pc = "Rejected"
    /\ expr.kind = "Call"
    /\ expr.args = <<EmptyPiece, CanonArg1(FooArg, StrRef),
                     Arg2(<<Argument(FormatSpec(AlignPath("Unknown"), CountImplied, CountIs))>>)>>
    /\ Len(ran) = 7
    /\ ran[7] = [check |-> "check_unformatted", ok |-> FALSE]

\* C7: a call-form report targets the macro-origin span, attaches its
\* suggestion at the argument span get_single_string_arg returned, and none
\* of the spans placed in the diagnostic refers to expanded code.
C7_Original ==
    (pc = "Reported" /\ expr.kind = "Call") =>
        /\ diags[1].span = is_expn_of(expr.span, "format").val
        /\ diags[1].sugg_span = format_arg.val
        /\ ~in_macro(diags[1].span)
        /\ ~in_macro(diags[1].sugg_span)

\* the violation of C7 is reached: a call-form report whose suggestion sits
\* at the span of the expanded Call expression, not at the argument span
C7_ExpandedSpanReached ==
    /\ pc = "Reported"
    /\ IsCanonCallOf(FooArg, StrRef)
    /\ diags[1].span = is_expn_of(expr.span, "format").val
    /\ diags[1].sugg_span = expr.span
    /\ diags[1].sugg_span # format_arg.val
    /\ in_macro(diags[1].sugg_span)

\* C8: a run ends in exactly one of Reported or Rejected and emits at most
\* one diagnostic; it is Reported only for a three-argument Call whose callee
\* resolves to the constructor and whose three arguments pass their checks,
\* run in order and stopping at the first failure, or for a Match over an
\* empty Tuple; every other expression is Rejected.
C8_Original ==
    /\ Terminal => pc \in {"Reported", "Rejected"}
    /\ Len(diags) <= 1
    /\ (pc = "Reported") = (Len(diags) = 1)
    /\ expr.kind = "Call" => RanInOrder(CallOrder)
    /\ expr.kind = "Match" => RanInOrder(LiteralOrder)
    /\ expr.kind \notin {"Call", "Match"} => (ran = << >> /\ pc # "Reported")
    /\ (pc = "Reported" /\ expr.kind = "Call") =>
          /\ OriginOk
          /\ Len(expr.args) = 3
          /\ expr.fun.kind = "Path"
          /\ expr.fun.res \in {DefFn(FMT_ARGUMENTS_NEWV1FORMATTED), DefMethod(FMT_ARGUMENTS_NEWV1FORMATTED)}
          /\ Len(ran) = 7
          /\ \A i \in 1..7 : ran[i].ok
    /\ (pc = "Reported" /\ expr.kind = "Match") => (OriginOk /\ IsLiteralForm)

\* what remains of C8 once a run may also end by the panic of values[0]
C8_ExceptPanic ==
    /\ Len(diags) <= 1
    /\ (pc = "Reported") = (Len(diags) = 1)
    /\ expr.kind = "Call" => RanInOrder(CallOrder)
    /\ expr.kind = "Match" => RanInOrder(LiteralOrder)
    /\ expr.kind \notin {"Call", "Match"} => (ran = << >> /\ pc # "Reported")
    /\ (pc = "Reported" /\ expr.kind = "Call") =>
          /\ OriginOk
          /\ Len(expr.args) = 3
          /\ expr.fun.kind = "Path"
          /\ expr.fun.res \in {DefFn(FMT_ARGUMENTS_NEWV1FORMATTED), DefMethod(FMT_ARGUMENTS_NEWV1FORMATTED)}
          /\ Len(ran) = 7
          /\ \A i \in 1..7 : ran[i].ok
    /\ (pc = "Reported" /\ expr.kind = "Match") => (OriginOk /\ IsLiteralForm)
    /\ pc = "Panicked" => (diags = << >> /\ Len(ran) = 6)

\* C9: get_single_string_arg never faults, and returns a span only when the
\* scrutinee is a Tuple of exactly one element and the sole arm's pattern is
\* a one-element tuple pattern of a single bound name.
C9_Original ==
    /\ format_arg # Panic
    /\ format_arg.tag = "Some" =>
          /\ expr.args[2].expr.matchee.kind = "Tup"
          /\ Len(expr.args[2].expr.matchee.elems) = 1
          /\ expr.args[2].expr.arms[1].pats[1].kind = "Tuple"
          /\ Len(expr.args[2].expr.arms[1].pats[1].pats) = 1
          /\ expr.args[2].expr.arms[1].pats[1].pats[1].kind = "Binding"

\* the panic of C9 is reached: an empty tuple matched by a one-element pattern
C9_PanicReached ==
    /\ pc = "Panicked"
    /\ expr.args[2].expr.matchee.elems = << >>

\* C10: when the resolver cannot resolve the callee of the outer Call, or the
\* path of the formatting method inside the second argument, the check
\* fails: the run is rejected, emits nothing and does not fault.
C10_ResolverFailure ==
    (/\ expr.kind = "Call"
     /\ \/ (expr.fun.kind = "Path" /\ expr.fun.res \in {DefErr, DefLocal})
        \/ (Len(expr.args) = 3 /\ expr.args[2] \in ShapedArg1s(Tys, {DefErr}))) =>
        /\ diags = << >>
        /\ pc \notin {"Unformatted", "ReportCall", "Reported", "Panicked"}
        /\ Terminal => pc = "Rejected"
        /\ (Terminal /\ OriginOk) => ~ran[Len(ran)].ok

C10_Witness ==
    /\ pc = "Rejected"
    /\ OriginOk
    /\ expr.kind = "Call"
    /\ expr.fun = NewV1Formatted
    /\ expr.args = <<EmptyPiece, Arg1(FooTup, ArgPat(StrRef), FmtBody(DefErr)), CanonArg2>>
    /\ Len(ran) = 6
    /\ ran[6] = [check |-> "get_single_string_arg", ok |-> FALSE]

====
